---- MODULE Spec2Model ----
(***************************************************************************)
(* Model of ship's .deb generator (src/src/deb.rs) and of the target loop  *)
(* of src/src/main.rs.                                                     *)
(*                                                                         *)
(* Strings are sequences of tokens.  A path is the sequence of its         *)
(* components: "/usr/bin/app" is <<"/", "usr", "bin", "app">> and          *)
(* "./a/app" is <<".", "a", "app">>.  An ar identifier is the sequence of  *)
(* its stem, its extension and its trailing bytes: "data.tar.zst/ " is     *)
(* <<"data.tar", ".zst", "/", " ">>.                                       *)
(***************************************************************************)
EXTENDS Integers, Sequences, FiniteSets, TLC

VARIABLES
    files,        \* conf.files.paths, the manifest's source paths
    targets,      \* conf.out.targets
    ti,           \* main: index of the target being processed
    pc,           \* position of the process
    i,            \* DebGenerator::run: index into files of the running loop
    bin_symlinks, \* DebGenerator::run: the plan, a sequence of <<link_path, to>>
    seen_links,   \* DebGenerator::run: the map link_path -> to, as a function
    deb_bytes,    \* DebGenerator::run: <<>> or <<the serialized archive>>
    built,        \* the running build has produced archive bytes
    patched,      \* the running build has patched its archive
    wrote,        \* the running build has written its output file
    out_file,     \* the output path on disk: <<>> or <<the archive written>>
    stderr,       \* the diagnostics printed so far
    failed,       \* a step of some .deb build has failed
    exit_code,    \* the process's exit status once pc is "exited" or "done"
    p_deb,        \* patcher harness: the archive handed to the patcher
    p_links,      \* patcher harness: the plan handed to the patcher
    p_res,        \* patcher harness: the patcher's result
    p_pc          \* patcher harness: "idle", "ready" or "done"

vars == <<files, targets, ti, pc, i, bin_symlinks, seen_links, deb_bytes, built,
          patched, wrote, out_file, stderr, failed, exit_code,
          p_deb, p_links, p_res, p_pc>>

progVars == <<files, targets, ti, pc, i, bin_symlinks, seen_links, deb_bytes, built,
              patched, wrote, out_file, stderr, failed, exit_code>>

patchVars == <<p_deb, p_links, p_res, p_pc>>

(***************************************************************************)
(* Bounds of the model.                                                    *)
(***************************************************************************)
MaxFiles == 3
MaxTargets == 2
MaxMembers == 3
MaxEntries == 2

(***************************************************************************)
(* Sequence helpers.                                                       *)
(***************************************************************************)
SeqsUpTo(S, n) == UNION {[1..k -> S] : k \in 0..n}

Last(s) == s[Len(s)]

Front(s) == SubSeq(s, 1, Len(s) - 1)

Distinct(s) == \A a, b \in 1..Len(s) : a # b => s[a] # s[b]

(***************************************************************************)
(* io::Result values of the patcher.                                       *)
(***************************************************************************)
Ok(v) == [ok |-> TRUE, err |-> "", val |-> v]

Err(e) == [ok |-> FALSE, err |-> e, val |-> <<>>]

ErrMissingData == "deb package missing data archive"
ErrUnsupported == "unsupported data archive format"
ErrPathConflict == "data archive already contains path"
ErrDecode == "decode error"
ErrSetPath == "paths in archives must be relative"

(***************************************************************************)
(* ar_identifier_to_name: pop trailing spaces, then strip one trailing '/'.*)
(***************************************************************************)
RECURSIVE TrimSpaces(_)
TrimSpaces(name) ==
    IF Len(name) > 0 /\ Last(name) = " " THEN TrimSpaces(Front(name)) ELSE name

RECURSIVE StripAllSlashes(_)
StripAllSlashes(name) ==
    IF Len(name) > 0 /\ Last(name) = "/" THEN StripAllSlashes(Front(name)) ELSE name

ar_identifier_to_name_greedy(identifier) == StripAllSlashes(TrimSpaces(identifier))

ar_identifier_to_name(identifier) ==
    LET name == TrimSpaces(identifier)
    IN  IF Len(name) > 0 /\ Last(name) = "/" THEN Front(name) ELSE name

DataTarZst == <<"data.tar", ".zst">>
DataTarXz == <<"data.tar", ".xz">>

ends_with(name, ext) == Len(name) > 0 /\ Last(name) = ext

IsDataName(identifier) ==
    LET name == ar_identifier_to_name(identifier)
    IN  name = DataTarZst \/ name = DataTarXz

(***************************************************************************)
(* The inner payload.  A compressed stream is [fmt, raw, tar]: fmt is the  *)
(* codec that produced it ("raw" for bytes that are no compressed stream), *)
(* tar the tape archive inside.  A tape-archive record is a header (path,  *)
(* entry_type, mode, link_name, mtime, size, cksum) with its contents;     *)
(* link_name <<>> is an empty link field.                                  *)
(***************************************************************************)
Cksum(h) ==
    (Len(h.path) + h.mode + Len(h.link_name) + h.mtime + h.size
       + (CASE h.entry_type = "File" -> 0
            [] h.entry_type = "Directory" -> 5
            [] h.entry_type = "Symlink" -> 2
            [] h.entry_type = "HardLink" -> 1
            [] OTHER -> 6)) % 256

set_cksum(h) == [h EXCEPT !.cksum = Cksum([h EXCEPT !.cksum = 0])]

\* tar::Header::new_gnu(): every field zeroed, a regular file.
new_gnu ==
    [path |-> <<>>, entry_type |-> "File", mode |-> 0, link_name |-> <<>>,
     mtime |-> 0, size |-> 0, cksum |-> 0, contents |-> <<>>]

\* tar::Header::set_path: refuses an absolute path and strips every "."
\* component, unless "." is the whole path.
RECURSIVE DropDots(_)
DropDots(p) ==
    IF p = <<>> THEN <<>>
    ELSE IF Head(p) = "." THEN DropDots(Tail(p))
    ELSE <<Head(p)>> \o DropDots(Tail(p))

set_path(p) ==
    IF p = <<>> \/ Head(p) = "/" THEN Err(ErrSetPath)
    ELSE IF p = <<".">> THEN Ok(p)
    ELSE Ok(DropDots(p))

is_link(entry_type) == entry_type \in {"Symlink", "HardLink"}

\* One iteration of the copy loop: the header rebuilt from the entry read.
ReEncode(entry) ==
    LET p == set_path(entry.path)
    IN  IF ~p.ok THEN p
        ELSE Ok(set_cksum(
               [new_gnu EXCEPT
                  !.path = p.val,
                  !.mode = entry.mode,
                  !.entry_type = entry.entry_type,
                  !.link_name = IF is_link(entry.entry_type) THEN entry.link_name ELSE <<>>,
                  !.size = Len(entry.contents),
                  !.contents = entry.contents]))

RECURSIVE CopyEntries(_, _)
CopyEntries(old_tar, new_tar) ==
    IF old_tar = <<>> THEN Ok(new_tar)
    ELSE LET e == ReEncode(Head(old_tar))
         IN  IF ~e.ok THEN e ELSE CopyEntries(Tail(old_tar), Append(new_tar, e.val))

\* link.strip_prefix('/').unwrap_or(link)
StripRoot(link) == IF link # <<>> /\ Head(link) = "/" THEN Tail(link) ELSE link

SymlinkMode == 511

SymlinkHeader(link_path, target) ==
    set_cksum([new_gnu EXCEPT !.path = link_path, !.entry_type = "Symlink",
                              !.link_name = target, !.mode = SymlinkMode])

\* The loop over bin_symlinks: the existing_paths test, then the new entry.
RECURSIVE AppendSymlinks(_, _, _)
AppendSymlinks(new_tar, existing_paths, links) ==
    IF links = <<>> THEN Ok(new_tar)
    ELSE LET link_path == StripRoot(Head(links)[1])
             p == set_path(link_path)
         IN  IF link_path \in existing_paths THEN Err(ErrPathConflict)
             ELSE IF ~p.ok THEN p
             ELSE AppendSymlinks(
                      Append(new_tar, SymlinkHeader(p.val, Head(links)[2])),
                      existing_paths, Tail(links))

DataCompression(data_name) ==
    IF ends_with(data_name, ".zst") THEN "Zstd"
    ELSE IF ends_with(data_name, ".xz") THEN "Xz"
    ELSE "none"

\* zstd::stream::copy_decode / xz2::read::XzDecoder: only a stream of the
\* decoder's own codec decodes.
Decompress(compression, data_archive) ==
    IF data_archive.fmt = compression THEN Ok(data_archive.tar) ELSE Err(ErrDecode)

CompressAlwaysZstd(compression, tar_buf) == [fmt |-> "Zstd", raw |-> <<>>, tar |-> tar_buf]

Compress(compression, tar_buf) == [fmt |-> compression, raw |-> <<>>, tar |-> tar_buf]

rewrite_data_archive(data_archive, data_name, links) ==
    LET compression == DataCompression(data_name)
    IN  IF compression = "none" THEN Err(ErrUnsupported)
        ELSE LET tar_buf == Decompress(compression, data_archive)
             IN  IF ~tar_buf.ok THEN tar_buf
                 ELSE LET existing_paths == {tar_buf.val[k].path : k \in 1..Len(tar_buf.val)}
                          copied == CopyEntries(tar_buf.val, <<>>)
                      IN  IF ~copied.ok THEN copied
                          ELSE LET new_tar == AppendSymlinks(copied.val, existing_paths, links)
                               IN  IF ~new_tar.ok THEN new_tar
                                   ELSE Ok(Compress(compression, new_tar.val))

(***************************************************************************)
(* The outer container.  A member record is its header (identifier, mtime, *)
(* uid, gid, mode, size) with its contents.                                *)
(***************************************************************************)
RECURSIVE TarLen(_)
TarLen(tar) ==
    IF tar = <<>> THEN 0 ELSE 1 + Len(Head(tar).contents) + TarLen(Tail(tar))

\* contents.len(): the number of bytes of a member's contents.
ByteLen(contents) ==
    IF contents.fmt = "raw" THEN Len(contents.raw) ELSE 1 + TarLen(contents.tar)

\* The read loop: (identifier, mode, contents) of every member.
ReadEntries(deb) ==
    [k \in 1..Len(deb) |->
        <<deb[k].identifier, deb[k].mode, deb[k].contents>>]

\* position(..): the first index whose canonical name is a payload name, 0 if none.
Position(entries) ==
    IF \E k \in 1..Len(entries) : IsDataName(entries[k][1])
    THEN CHOOSE k \in 1..Len(entries) :
            /\ IsDataName(entries[k][1])
            /\ \A j \in 1..(k-1) : ~IsDataName(entries[j][1])
    ELSE 0

\* ar::Header::new(identifier, len) zeroes every other field; set_mode(mode).
WriteMemberNoMode(entry) ==
    [identifier |-> entry[1], mtime |-> 0, uid |-> 0, gid |-> 0, mode |-> 0,
     size |-> ByteLen(entry[3]), contents |-> entry[3]]

WriteMember(entry) ==
    [identifier |-> entry[1], mtime |-> 0, uid |-> 0, gid |-> 0, mode |-> entry[2],
     size |-> ByteLen(entry[3]), contents |-> entry[3]]

rewrite_deb_with_symlinks_stale_size(deb, links) ==
    LET entries == ReadEntries(deb)
        data_index == Position(entries)
    IN  IF data_index = 0 THEN Err(ErrMissingData)
        ELSE LET data_name == ar_identifier_to_name(entries[data_index][1])
                 data == rewrite_data_archive(entries[data_index][3], data_name, links)
             IN  IF ~data.ok THEN data
                 ELSE LET patched_entries ==
                              [entries EXCEPT ![data_index] = <<@[1], @[2], data.val>>]
                      IN  Ok([k \in 1..Len(patched_entries) |->
                                  [WriteMember(patched_entries[k])
                                      EXCEPT !.size = ByteLen(entries[k][3])]])

rewrite_deb_with_symlinks(deb, links) ==
    LET entries == ReadEntries(deb)
        data_index == Position(entries)
    IN  IF data_index = 0 THEN Err(ErrMissingData)
        ELSE LET data_name == ar_identifier_to_name(entries[data_index][1])
                 data == rewrite_data_archive(entries[data_index][3], data_name, links)
             IN  IF ~data.ok THEN data
                 ELSE LET patched_entries ==
                              [entries EXCEPT ![data_index] = <<@[1], @[2], data.val>>]
                      IN  Ok([k \in 1..Len(patched_entries) |->
                                  WriteMember(patched_entries[k])])

(***************************************************************************)
(* Inputs of the patcher: archives as a package builder may serialize them *)
(* and plans as the planner may hand them over.                            *)
(***************************************************************************)
Raw(bytes) == [fmt |-> "raw", raw |-> bytes, tar |-> <<>>]

TarEntry(entry_type, path, mode, link_name, mtime, contents) ==
    set_cksum([path |-> path, entry_type |-> entry_type, mode |-> mode,
               link_name |-> link_name, mtime |-> mtime, size |-> Len(contents),
               cksum |-> 0, contents |-> contents])

EntrySet ==
    { TarEntry("File", <<"opt", "x", "app">>, 493, <<>>, 1, <<1, 2>>),
      TarEntry("Directory", <<".", "usr", "bin">>, 493, <<>>, 0, <<>>),
      TarEntry("Symlink", <<"usr", "bin", "app">>, 511, <<"/", "opt", "x", "app">>, 0, <<>>),
      TarEntry("HardLink", <<".", "usr", "bin", "tool">>, 420, <<"opt", "x", "app">>, 0, <<>>),
      TarEntry("Fifo", <<"opt", "x", "pipe">>, 384, <<"stale">>, 1, <<>>) }

Member(identifier, mode, mtime, contents) ==
    [identifier |-> identifier, mtime |-> mtime, uid |-> 0, gid |-> 0, mode |-> mode,
     size |-> ByteLen(contents), contents |-> contents]

\* The bytes codec produces for a tape archive.
Stream(codec, tar) == [fmt |-> codec, raw |-> <<>>, tar |-> tar]

MemberSet(tar) ==
    { Member(<<"debian-binary">>, 33188, 0, Raw(<<50, 46, 48, 10>>)),
      Member(<<"data.tar", ".zst", "/", "/">>, 420, 1, Raw(<<7>>)),
      Member(<<"data.tar", ".zst">>, 33188, 0, Stream("Zstd", tar)),
      Member(<<"data.tar", ".xz", "/">>, 420, 1, Stream("Xz", tar)),
      Member(<<"data.tar", ".zst", " ">>, 33188, 0, Stream("Xz", tar)) }

Archives ==
    UNION { SeqsUpTo(MemberSet(tar), MaxMembers) \ {<<>>} :
              tar \in SeqsUpTo(EntrySet, MaxEntries) }

LinkApp == <<<<"/", "usr", "bin", "app">>, <<"/", "opt", "x", "app">>>>
LinkTool == <<<<"/", "usr", "bin", "tool">>, <<"/", "opt", "x", "tool">>>>

Plans == { <<>>, <<LinkApp>>, <<LinkTool>>, <<LinkApp, LinkTool>>, <<LinkTool, LinkApp>> }

NoResult == Err("")

(***************************************************************************)
(* PatchSpec: rewrite_deb_with_symlinks applied to every input.            *)
(***************************************************************************)
ProgIdle ==
    /\ files = <<>> /\ targets = <<>> /\ ti = 0 /\ pc = "idle" /\ i = 0
    /\ bin_symlinks = <<>> /\ seen_links = <<>> /\ deb_bytes = <<>>
    /\ built = FALSE /\ patched = FALSE /\ wrote = FALSE
    /\ out_file = <<>> /\ stderr = <<>> /\ failed = FALSE /\ exit_code = 0

PatchInit ==
    /\ ProgIdle
    /\ p_deb \in Archives
    /\ p_links \in Plans
    /\ p_res = NoResult
    /\ p_pc = "ready"

ApplyPatch ==
    /\ p_pc = "ready"
    /\ p_res' = rewrite_deb_with_symlinks(p_deb, p_links)
    /\ p_pc' = "done"
    /\ UNCHANGED <<p_deb, p_links>>
    /\ UNCHANGED progVars

PatchNext == ApplyPatch

PatchSpec == PatchInit /\ [][PatchNext]_vars

(***************************************************************************)
(* The host filesystem the manifest's paths are resolved on: kind and      *)
(* permission bits of each path (a "./" prefix names the same file).       *)
(***************************************************************************)
Metadata(path) ==
    LET p == DropDots(path)
    IN  CASE p = <<"a", "app">> -> [kind |-> "file", mode |-> 493]
          [] p = <<"b", "app">> -> [kind |-> "file", mode |-> 484]
          [] p = <<"a", "tool">> -> [kind |-> "file", mode |-> 457]
          [] p = <<"a", "readme">> -> [kind |-> "file", mode |-> 420]
          [] p = <<"c", "app">> -> [kind |-> "dir", mode |-> 493]
          [] OTHER -> [kind |-> "missing", mode |-> 0]

SourcePaths ==
    { <<"a", "app">>, <<".", "a", "app">>, <<"b", "app">>, <<"a", "tool">>,
      <<"a", "readme">>, <<"c", "app">>, <<"gone">> }

ProgName == "x"

RECURSIVE BitAnd(_, _)
BitAnd(a, b) ==
    IF a = 0 \/ b = 0 THEN 0
    ELSE (a % 2) * (b % 2) + 2 * BitAnd(a \div 2, b \div 2)

ExecBits == 73

\* executable_name: Some(file name) of an existing regular file with an
\* execute bit, as <<name>>; None as <<>>.
executable_name_any_file(path) ==
    LET metadata == Metadata(path)
    IN  IF metadata.kind # "file" THEN <<>> ELSE <<Last(path)>>

executable_name(path) ==
    LET metadata == Metadata(path)
    IN  IF metadata.kind = "missing" THEN <<>>
        ELSE IF metadata.kind # "file" \/ BitAnd(metadata.mode, ExecBits) = 0 THEN <<>>
        ELSE <<Last(path)>>

\* format!("/opt/{}/{}", name, file.strip_prefix("./").unwrap_or(file))
InstalledPath(file) ==
    <<"/", "opt", ProgName>> \o (IF Head(file) = "." THEN Tail(file) ELSE file)

\* The (from, to) pairs of run's first statement.
FileEntries(paths) == [k \in 1..Len(paths) |-> <<paths[k], InstalledPath(paths[k])>>]

LinkPath(link_name) == <<"/", "usr", "bin", link_name>>

\* One iteration of the planner loop on (from, to): what it leaves in
\* bin_symlinks and seen_links, and whether it reports a conflict.
PlanEntryNoConflictCheck(plan, seen, from, to) ==
    LET name == executable_name(from)
    IN  IF name = <<>> THEN [conflict |-> FALSE, plan |-> plan, seen |-> seen]
        ELSE LET link_path == LinkPath(name[1])
             IN  IF link_path \in DOMAIN seen
                 THEN [conflict |-> FALSE, plan |-> plan, seen |-> seen]
                 ELSE [conflict |-> FALSE,
                       plan |-> Append(plan, <<link_path, to>>),
                       seen |-> (link_path :> to) @@ seen]

PlanEntryReAdd(plan, seen, from, to) ==
    LET name == executable_name(from)
    IN  IF name = <<>> THEN [conflict |-> FALSE, plan |-> plan, seen |-> seen]
        ELSE LET link_path == LinkPath(name[1])
             IN  IF link_path \in DOMAIN seen /\ seen[link_path] # to
                 THEN [conflict |-> TRUE, plan |-> plan, seen |-> seen]
                 ELSE [conflict |-> FALSE,
                       plan |-> Append(plan, <<link_path, to>>),
                       seen |-> (link_path :> to) @@ seen]

PlanEntry(plan, seen, from, to) ==
    LET name == executable_name(from)
    IN  IF name = <<>> THEN [conflict |-> FALSE, plan |-> plan, seen |-> seen]
        ELSE LET link_path == LinkPath(name[1])
             IN  IF link_path \in DOMAIN seen
                 THEN IF seen[link_path] # to
                      THEN [conflict |-> TRUE, plan |-> plan, seen |-> seen]
                      ELSE [conflict |-> FALSE, plan |-> plan, seen |-> seen]
                 ELSE [conflict |-> FALSE,
                       plan |-> Append(plan, <<link_path, to>>),
                       seen |-> (link_path :> to) @@ seen]

(***************************************************************************)
(* What the package builder (an external library) may return for a build:  *)
(* a debian-binary member followed by at most one more member.             *)
(***************************************************************************)
BuildArchives ==
    LET binary == Member(<<"debian-binary">>, 33188, 0, Raw(<<50, 46, 48, 10>>))
        app == TarEntry("File", <<"opt", "x", "app">>, 493, <<>>, 1, <<1, 2>>)
        link == TarEntry("Symlink", <<"usr", "bin", "app">>, 511,
                         <<"/", "opt", "x", "app">>, 0, <<>>)
    IN  { <<binary>>,
          <<binary, Member(<<"data.tar", ".zst">>, 33188, 0, Stream("Zstd", <<app>>))>>,
          <<binary, Member(<<"data.tar", ".xz", "/">>, 420, 1, Stream("Xz", <<link>>))>> }

TargetSet == {"Deb", "AppImage", "Rpm"}

\* std::process::exit(code): the status the parent sees.
ExitStatus(code) == code % 256

(***************************************************************************)
(* Spec: main's loop over the targets and DebGenerator::run.               *)
(***************************************************************************)
PatchIdle == p_deb = <<>> /\ p_links = <<>> /\ p_res = NoResult /\ p_pc = "idle"

Init ==
    /\ files \in SeqsUpTo(SourcePaths, MaxFiles)
    /\ targets \in SeqsUpTo(TargetSet, MaxTargets) \ {<<>>}
    /\ ti = 1
    /\ pc = "main"
    /\ i = 0
    /\ bin_symlinks = <<>>
    /\ seen_links = <<>>
    /\ deb_bytes = <<>>
    /\ built = FALSE /\ patched = FALSE /\ wrote = FALSE
    /\ out_file = <<>>
    /\ stderr = <<>>
    /\ failed = FALSE
    /\ exit_code = 0
    /\ PatchIdle

\* run returns to main's loop; its locals are dropped.
ReturnToMain ==
    /\ pc' = "main"
    /\ ti' = ti + 1
    /\ i' = 0
    /\ bin_symlinks' = <<>>
    /\ seen_links' = <<>>
    /\ deb_bytes' = <<>>

\* eprintln!(diagnostic); std::process::exit(-1)
DieWith(diagnostic) ==
    /\ stderr' = Append(stderr, diagnostic)
    /\ failed' = TRUE
    /\ pc' = "exited"
    /\ exit_code' = ExitStatus(-1)

\* main: the loop is over and main returns.
MainReturn ==
    /\ pc = "main"
    /\ ti > Len(targets)
    /\ pc' = "done"
    /\ exit_code' = 0
    /\ UNCHANGED <<files, targets, ti, i, bin_symlinks, seen_links, deb_bytes, built,
                   patched, wrote, out_file, stderr, failed>>
    /\ UNCHANGED patchVars

\* main, Target::Deb: DebGenerator::run starts; with no files both loops
\* are skipped.
DebStart ==
    /\ pc = "main"
    /\ ti <= Len(targets)
    /\ targets[ti] = "Deb"
    /\ pc' = IF files = <<>> THEN "mkdir" ELSE "plan"
    /\ i' = 1
    /\ bin_symlinks' = <<>>
    /\ seen_links' = <<>>
    /\ deb_bytes' = <<>>
    /\ built' = FALSE /\ patched' = FALSE /\ wrote' = FALSE
    /\ UNCHANGED <<files, targets, ti, out_file, stderr, failed, exit_code>>
    /\ UNCHANGED patchVars

\* main, Target::AppImage: AppImageGenerator::run, which ends the process
\* when no listed path is a file or a library call fails.
AppImageRun ==
    /\ pc = "main"
    /\ ti <= Len(targets)
    /\ targets[ti] = "AppImage"
    /\ \E lib_ok \in BOOLEAN :
          IF lib_ok /\ \E k \in 1..Len(files) : Metadata(files[k]).kind = "file"
          THEN /\ ti' = ti + 1
               /\ UNCHANGED <<pc, stderr, exit_code>>
          ELSE /\ stderr' = Append(stderr, "appimage")
               /\ pc' = "exited"
               /\ exit_code' = ExitStatus(-1)
               /\ UNCHANGED ti
    /\ UNCHANGED <<files, targets, i, bin_symlinks, seen_links, deb_bytes, built,
                   patched, wrote, out_file, failed>>
    /\ UNCHANGED patchVars

\* main, any other target: a message, and on to the next target.
UnsupportedTarget ==
    /\ pc = "main"
    /\ ti <= Len(targets)
    /\ targets[ti] \notin {"Deb", "AppImage"}
    /\ stderr' = Append(stderr, "not yet supported")
    /\ ti' = ti + 1
    /\ UNCHANGED <<files, targets, pc, i, bin_symlinks, seen_links, deb_bytes, built,
                   patched, wrote, out_file, failed, exit_code>>
    /\ UNCHANGED patchVars

\* One iteration of the planner loop.
PlanStep ==
    /\ pc = "plan"
    /\ LET entry == FileEntries(files)[i]
           r == PlanEntry(bin_symlinks, seen_links, entry[1], entry[2])
       IN  IF r.conflict
           THEN /\ stderr' = Append(stderr, "conflicting binaries")
                /\ failed' = TRUE
                /\ ReturnToMain
           ELSE /\ bin_symlinks' = r.plan
                /\ seen_links' = r.seen
                /\ IF i = Len(files)
                   THEN pc' = "add" /\ i' = 1
                   ELSE pc' = pc /\ i' = i + 1
                /\ UNCHANGED <<ti, deb_bytes, stderr, failed>>
    /\ UNCHANGED <<files, targets, built, patched, wrote, out_file, exit_code>>
    /\ UNCHANGED patchVars

\* One iteration of the loop that adds the files to the package.
AddStep ==
    /\ pc = "add"
    /\ LET from == FileEntries(files)[i][1]
       IN  IF Metadata(from).kind = "dir"
           THEN \E read_ok \in BOOLEAN :
                   IF read_ok
                   THEN /\ IF i = Len(files)
                           THEN pc' = "mkdir" /\ i' = 0
                           ELSE pc' = pc /\ i' = i + 1
                        /\ UNCHANGED <<ti, bin_symlinks, seen_links, deb_bytes,
                                       stderr, failed, exit_code>>
                   ELSE /\ DieWith("failed to read directory")
                        /\ UNCHANGED <<ti, i, bin_symlinks, seen_links, deb_bytes>>
           ELSE IF Metadata(from).kind = "missing"
           THEN /\ stderr' = Append(stderr, "failed to generate .deb")
                /\ failed' = TRUE
                /\ ReturnToMain
                /\ UNCHANGED exit_code
           ELSE /\ IF i = Len(files)
                   THEN pc' = "mkdir" /\ i' = 0
                   ELSE pc' = pc /\ i' = i + 1
                /\ UNCHANGED <<ti, bin_symlinks, seen_links, deb_bytes,
                               stderr, failed, exit_code>>
    /\ UNCHANGED <<files, targets, built, patched, wrote, out_file>>
    /\ UNCHANGED patchVars

\* create_dir_all(parent)
CreateOutputDir ==
    /\ pc = "mkdir"
    /\ \E ok \in BOOLEAN :
          IF ok
          THEN pc' = "build" /\ UNCHANGED <<stderr, failed, exit_code>>
          ELSE DieWith("failed to create output directory")
    /\ UNCHANGED <<files, targets, ti, i, bin_symlinks, seen_links, deb_bytes, built,
                   patched, wrote, out_file>>
    /\ UNCHANGED patchVars

NeedsPatchAlways(plan) == TRUE

\* if !bin_symlinks.is_empty()
NeedsPatch(plan) == plan # <<>>

\* pkg.build() and archive.write(&mut deb_bytes)
BuildAndSerialize ==
    /\ pc = "build"
    /\ \/ \E archive \in BuildArchives :
             /\ deb_bytes' = <<archive>>
             /\ built' = TRUE
             /\ pc' = IF NeedsPatch(bin_symlinks) THEN "patch" ELSE "write"
             /\ UNCHANGED <<stderr, failed, exit_code>>
       \/ \E diagnostic \in {"failed to build .deb package",
                             "failed to serialize .deb package"} :
             DieWith(diagnostic) /\ UNCHANGED <<deb_bytes, built>>
    /\ UNCHANGED <<files, targets, ti, i, bin_symlinks, seen_links,
                   patched, wrote, out_file>>
    /\ UNCHANGED patchVars

\* deb_bytes = rewrite_deb_with_symlinks(&deb_bytes, &bin_symlinks)
PatchStep ==
    /\ pc = "patch"
    /\ LET r == rewrite_deb_with_symlinks(deb_bytes[1], bin_symlinks)
       IN  IF r.ok
           THEN /\ deb_bytes' = <<r.val>>
                /\ patched' = TRUE
                /\ pc' = "write"
                /\ UNCHANGED <<stderr, failed, exit_code>>
           ELSE /\ DieWith("failed to add symlinks to .deb data archive")
                /\ UNCHANGED <<deb_bytes, patched>>
    /\ UNCHANGED <<files, targets, ti, i, bin_symlinks, seen_links, built,
                   wrote, out_file>>
    /\ UNCHANGED patchVars

\* std::fs::write(&output_path, deb_bytes), then run returns.
WriteStep ==
    /\ pc = "write"
    /\ \E ok \in BOOLEAN :
          IF ok
          THEN /\ out_file' = deb_bytes
               /\ wrote' = TRUE
               /\ ReturnToMain
               /\ UNCHANGED <<stderr, failed, exit_code>>
          ELSE /\ DieWith("failed to write .deb package")
               /\ UNCHANGED <<ti, i, bin_symlinks, seen_links, deb_bytes, wrote, out_file>>
    /\ UNCHANGED <<files, targets, built, patched>>
    /\ UNCHANGED patchVars

Next ==
    \/ MainReturn
    \/ DebStart
    \/ AppImageRun
    \/ UnsupportedTarget
    \/ PlanStep
    \/ AddStep
    \/ CreateOutputDir
    \/ BuildAndSerialize
    \/ PatchStep
    \/ WriteStep

Spec == Init /\ [][Next]_vars

(***************************************************************************)
(* Vocabulary of the patcher's properties.  The payload is named here from *)
(* the identifier's shape, not through ar_identifier_to_name.              *)
(***************************************************************************)
Spaces(n) == [k \in 1..n |-> " "]

HasCanonicalName(identifier, base) ==
    \E n \in 0..Len(identifier) :
        \/ identifier = base \o Spaces(n)
        \/ identifier = base \o <<"/">> \o Spaces(n)

IsPayloadMember(m) ==
    HasCanonicalName(m.identifier, DataTarZst) \/ HasCanonicalName(m.identifier, DataTarXz)

\* The first payload member of an archive, 0 when it has none.
PayloadIndex(deb) ==
    IF \E k \in 1..Len(deb) : IsPayloadMember(deb[k])
    THEN CHOOSE k \in 1..Len(deb) :
            IsPayloadMember(deb[k]) /\ \A j \in 1..(k-1) : ~IsPayloadMember(deb[j])
    ELSE 0

PatchDone == p_pc = "done"

PatchOk == p_pc = "done" /\ p_res.ok

InTar == p_deb[PayloadIndex(p_deb)].contents.tar

OutTar == p_res.val[PayloadIndex(p_deb)].contents.tar

PathsOf(tar) == [k \in 1..Len(tar) |-> tar[k].path]

\* The fields of a PayloadEntry: path, type, mode, link target, contents.
EntryView(e) ==
    <<e.path, e.entry_type, e.mode,
      IF is_link(e.entry_type) THEN e.link_name ELSE <<>>, e.contents>>

(* C3: after a successful rewrite_deb_with_symlinks the output has as many
   members as the input and every member other than the payload has the
   identifier, the mode and the contents of the input member at its
   position. *)
C3_NonPayloadMembersPreserved ==
    PatchOk =>
        /\ Len(p_res.val) = Len(p_deb)
        /\ \A k \in 1..Len(p_deb) :
              k # PayloadIndex(p_deb) =>
                  /\ p_res.val[k].identifier = p_deb[k].identifier
                  /\ p_res.val[k].mode = p_deb[k].mode
                  /\ p_res.val[k].contents = p_deb[k].contents

C3_Witness ==
    /\ PatchOk
    /\ Len(p_deb) = 3
    /\ p_links # <<>>
    /\ PayloadIndex(p_deb) = 2
    /\ p_deb[1].mode # p_deb[3].mode
    /\ p_res.val[2].contents # p_deb[2].contents

(* C4: a symlink whose archive-relative path is already an entry path of
   the payload makes the patch fail with the path-conflict error and no
   bytes, and every successful patch of a payload with pairwise distinct
   paths yields a payload with pairwise distinct paths. *)
C4_PathCollisionRejected ==
    /\ (PatchDone /\ PayloadIndex(p_deb) > 0
          /\ p_deb[PayloadIndex(p_deb)].contents.fmt # "raw"
          /\ \E j \in 1..Len(p_links), k \in 1..Len(InTar) :
                 StripRoot(p_links[j][1]) = InTar[k].path)
        => (~p_res.ok /\ p_res.val = <<>>)
    /\ (PatchOk /\ Distinct(PathsOf(InTar))) => Distinct(PathsOf(OutTar))

(* C5: after a successful patch the payload's entries are the original
   entries in their order followed by one entry per planned symlink in plan
   order, each a symlink of size zero and mode 0o777 at the link_path
   without its leading '/', pointing at the installed target. *)
C5_OriginalsThenSymlinks ==
    PatchOk =>
        /\ Len(OutTar) = Len(InTar) + Len(p_links)
        /\ \A k \in 1..Len(InTar) : EntryView(OutTar[k]) = EntryView(InTar[k])
        /\ \A j \in 1..Len(p_links) :
              LET e == OutTar[Len(InTar) + j]
              IN  /\ e.entry_type = "Symlink"
                  /\ e.size = 0 /\ e.contents = <<>>
                  /\ e.mode = 511
                  /\ <<"/">> \o e.path = p_links[j][1]
                  /\ e.link_name = p_links[j][2]

(* C6: with no symlinks to add, a successful patch yields a payload whose
   entries equal the original's, position by position, in path, entry
   type, mode, link target and contents (and so in size). *)
C6_RoundTripIdentity ==
    (PatchOk /\ p_links = <<>>) =>
        /\ Len(OutTar) = Len(InTar)
        /\ \A k \in 1..Len(InTar) :
              /\ EntryView(OutTar[k]) = EntryView(InTar[k])
              /\ OutTar[k].size = InTar[k].size

(* C8: a successful patch decoded the payload with the codec its name
   gives (data.tar.zst: Zstd, data.tar.xz: Xz) and compressed the new
   payload with that same codec. *)
C8_SameCodec ==
    PatchOk =>
        LET k == PayloadIndex(p_deb)
            codec == IF HasCanonicalName(p_deb[k].identifier, DataTarZst)
                     THEN "Zstd" ELSE "Xz"
        IN  /\ p_deb[k].contents.fmt = codec
            /\ p_res.val[k].contents.fmt = codec

C8_Witness ==
    /\ PatchOk
    /\ HasCanonicalName(p_deb[PayloadIndex(p_deb)].identifier, DataTarXz)
    /\ p_res.val[PayloadIndex(p_deb)].contents.fmt = "Xz"
    /\ p_links # <<>>

(* C9: the patch fails with the missing-payload error exactly when no
   member's canonical identifier is data.tar.zst or data.tar.xz, a failure
   returns no bytes, and a success changes the contents of the payload
   member and of no other member. *)
C9_MissingPayloadIff ==
    PatchDone =>
        /\ (p_res.err = ErrMissingData) <=> (PayloadIndex(p_deb) = 0)
        /\ ~p_res.ok => p_res.val = <<>>
        /\ p_res.ok =>
              /\ \A k \in 1..Len(p_deb) :
                    p_res.val[k].contents # p_deb[k].contents => k = PayloadIndex(p_deb)
              /\ p_links # <<>> =>
                    p_res.val[PayloadIndex(p_deb)].contents
                        # p_deb[PayloadIndex(p_deb)].contents

C9_Witness ==
    /\ PatchDone
    /\ PayloadIndex(p_deb) = 0
    /\ p_res.err = ErrMissingData
    /\ \E k \in 1..Len(p_deb) : Len(p_deb[k].identifier) > 2

C9_WitnessPayload ==
    /\ PatchOk
    /\ Cardinality({k \in 1..Len(p_deb) : IsPayloadMember(p_deb[k])}) = 2
    /\ p_links # <<>>

(* What C4, C5 and C6 state does hold of every payload none of whose entry
   paths has a "." component: set_path then stores each path as read. *)
DotFree(tar) ==
    \A k \in 1..Len(tar) : \A c \in 1..Len(tar[k].path) : tar[k].path[c] # "."

DotFreePayloadsKeepPaths ==
    (PatchOk /\ DotFree(InTar)) =>
        /\ Len(OutTar) = Len(InTar) + Len(p_links)
        /\ \A k \in 1..Len(InTar) :
              EntryView(OutTar[k]) = EntryView(InTar[k]) /\ OutTar[k].size = InTar[k].size
        /\ Distinct(PathsOf(InTar)) => Distinct(PathsOf(OutTar))
        /\ \A j \in 1..Len(p_links) :
              LET e == OutTar[Len(InTar) + j]
              IN  /\ e.entry_type = "Symlink"
                  /\ e.size = 0 /\ e.contents = <<>>
                  /\ e.mode = 511
                  /\ <<"/">> \o e.path = p_links[j][1]
                  /\ e.link_name = p_links[j][2]

(* C10: after a successful patch every member record other than the
   payload's equals the input's record, header fields and contents. *)
C10_MemberRecordsPreserved ==
    PatchOk =>
        \A k \in 1..Len(p_deb) : k # PayloadIndex(p_deb) => p_res.val[k] = p_deb[k]

(***************************************************************************)
(* Vocabulary of the planner's properties.                                 *)
(***************************************************************************)
IsExecutableEntry(path) == executable_name(path) # <<>>

LinkOf(path) == <<"/", "usr", "bin", Last(path)>>

\* Two executable entries with one link_path and different installed targets.
HasTrueConflict(paths) ==
    LET executables == {k \in 1..Len(paths) : IsExecutableEntry(paths[k])}
    IN  \E a, b \in executables :
            /\ LinkOf(paths[a]) = LinkOf(paths[b])
            /\ InstalledPath(paths[a]) # InstalledPath(paths[b])

Count(seq, x) == Cardinality({k \in 1..Len(seq) : seq[k] = x})

\* The .deb builds that have ended by returning to main.
DebRunsReturned ==
    Cardinality({k \in 1..Len(targets) : k < ti /\ targets[k] = "Deb"})

PastPlanner == pc \in {"add", "mkdir", "build", "patch", "write"}

\* The file entries the planner loop has processed.
Processed == IF pc = "plan" THEN i - 1 ELSE IF PastPlanner THEN Len(files) ELSE 0

(* C1: when two executable entries of the file list derive one link_path
   with different installed targets, every .deb build stops in the planner
   loop with the conflict diagnostic: it never gets past the planner, and no
   archive is built, patched or written. *)
C1_ConflictAborts ==
    HasTrueConflict(files) =>
        /\ ~PastPlanner
        /\ ~built /\ ~patched /\ ~wrote
        /\ deb_bytes = <<>> /\ out_file = <<>>
        /\ pc \in {"main", "done"} =>
              Count(stderr, "conflicting binaries") = DebRunsReturned

C1_Witness ==
    /\ HasTrueConflict(files)
    /\ Len(files) = 3
    /\ LinkOf(files[1]) = LinkOf(files[3])
    /\ InstalledPath(files[1]) # InstalledPath(files[3])
    /\ ~IsExecutableEntry(files[2])
    /\ DebRunsReturned = 1
    /\ stderr = <<"conflicting binaries">>

(* C2: the planner keeps exactly one symlink entry, with the entry's own
   target, for the link_path of every executable entry it has processed,
   however often the entry recurs, and a file list without two different
   targets for one link_path raises no conflict. *)
C2_DuplicatesCollapse ==
    /\ \A k \in 1..Processed :
          IsExecutableEntry(files[k]) =>
              /\ Cardinality({j \in 1..Len(bin_symlinks) :
                                 bin_symlinks[j][1] = LinkOf(files[k])}) = 1
              /\ <<LinkOf(files[k]), InstalledPath(files[k])>>
                     \in {bin_symlinks[j] : j \in 1..Len(bin_symlinks)}
    /\ Count(stderr, "conflicting binaries") > 0 => HasTrueConflict(files)

C2_Witness ==
    /\ PastPlanner
    /\ Len(files) = 3
    /\ files[1] = files[3]
    /\ IsExecutableEntry(files[1])
    /\ IsExecutableEntry(files[2])
    /\ files[2] # files[1]
    /\ DropDots(files[2]) = DropDots(files[1])
    /\ Len(bin_symlinks) = 1
    /\ stderr = <<>>

(* C7: once a step of a .deb build has failed, a diagnostic has been
   printed, the process has terminated with a non-zero status and the build
   has written no archive. *)
C7_FailureTerminates ==
    failed =>
        /\ stderr # <<>>
        /\ pc = "exited"
        /\ exit_code # 0
        /\ ~wrote

(* C11: in every .deb build the planner has processed the whole file list
   before any archive bytes exist; the patcher runs at most once in a build,
   only on serialized bytes and only with a non-empty plan; and with an
   empty plan the builder's bytes go to the write step unchanged and are the
   bytes written. *)
C11_PlanThenBuildThenPatchOnce ==
    /\ [](/\ pc = "plan" => (~built /\ ~patched /\ deb_bytes = <<>>)
          /\ deb_bytes # <<>> => built
          /\ pc = "patch" => (built /\ ~patched /\ deb_bytes # <<>> /\ bin_symlinks # <<>>)
          /\ pc = "write" => (built /\ deb_bytes # <<>> /\ (patched <=> bin_symlinks # <<>>)))
    /\ [][/\ (built' /\ ~built) =>
                /\ pc = "build"
                /\ bin_symlinks' = bin_symlinks
                /\ \A k \in 1..Len(files) :
                      IsExecutableEntry(files[k]) =>
                          \E j \in 1..Len(bin_symlinks) :
                              bin_symlinks[j][1] = LinkOf(files[k])
                /\ bin_symlinks = <<>> => pc' = "write"
          /\ (patched' /\ ~patched) =>
                (pc = "patch" /\ built /\ deb_bytes # <<>> /\ bin_symlinks # <<>>)
          /\ (deb_bytes' # deb_bytes /\ deb_bytes # <<>>) =>
                (deb_bytes' = <<>> \/ (pc = "patch" /\ patched'))
          /\ (wrote' /\ ~wrote) => (pc = "write" /\ out_file' = deb_bytes)
         ]_vars

C11_Witness ==
    /\ pc = "main"
    /\ ti = 2
    /\ wrote /\ built /\ ~patched
    /\ Len(files) = 2
    /\ \E a \in BuildArchives : out_file = <<a>> /\ Len(a) = 2

\* A regular file with an owner, group or other execute bit.
ExecutableRegularFile(path) ==
    /\ Metadata(path).kind = "file"
    /\ \E bit \in {1, 8, 64} : (Metadata(path).mode \div bit) % 2 = 1

\* The processed entries that are executable regular files.
ProcessedExecutables == {k \in 1..Processed : ExecutableRegularFile(files[k])}

\* The position of the first processed executable entry with this link_path.
FirstOccurrence(link_path) ==
    CHOOSE k \in ProcessedExecutables :
        /\ LinkOf(files[k]) = link_path
        /\ \A j \in ProcessedExecutables : LinkOf(files[j]) = link_path => k <= j

(* C12: while the planner loop runs and after it has ended without a
   conflict, the plan's link_paths are pairwise distinct, seen_links has the
   plan's link_paths as keys and the plan's targets as values, and the plan
   lists exactly the link_paths of the executable regular files processed so
   far, in the order of their first occurrences; directories, missing paths
   and files without an execute bit add nothing. *)
C12_PlanInvariant ==
    (pc = "plan" \/ PastPlanner) =>
        LET links == [j \in 1..Len(bin_symlinks) |-> bin_symlinks[j][1]]
        IN  /\ Distinct(links)
            /\ DOMAIN seen_links = {links[j] : j \in 1..Len(links)}
            /\ \A j \in 1..Len(bin_symlinks) :
                  seen_links[bin_symlinks[j][1]] = bin_symlinks[j][2]
            /\ {links[j] : j \in 1..Len(links)}
                   = {LinkOf(files[k]) : k \in ProcessedExecutables}
            /\ \A a, b \in 1..Len(links) :
                  a < b => FirstOccurrence(links[a]) < FirstOccurrence(links[b])

C12_Witness ==
    /\ PastPlanner
    /\ Len(files) = 3
    /\ ~ExecutableRegularFile(files[2])
    /\ Metadata(files[2]).kind = "file"
    /\ Len(bin_symlinks) = 2
    /\ bin_symlinks[1][1] = <<"/", "usr", "bin", "tool">>
    /\ bin_symlinks[2][1] = <<"/", "usr", "bin", "app">>

(* C13: a successful rewrite_deb_with_symlinks returns as many members as
   it read, with the identifiers and modes of the input in the input's
   order; the payload member's contents are the newly compressed payload,
   every other member's are the input's; and every member's size field is
   the length of the contents written for it. *)
C13_SameMembersNewPayload ==
    PatchOk =>
        /\ Len(p_res.val) = Len(p_deb)
        /\ \A k \in 1..Len(p_deb) :
              /\ p_res.val[k].identifier = p_deb[k].identifier
              /\ p_res.val[k].mode = p_deb[k].mode
              /\ p_res.val[k].size = ByteLen(p_res.val[k].contents)
              /\ k # PayloadIndex(p_deb) => p_res.val[k].contents = p_deb[k].contents
        /\ LET new == p_res.val[PayloadIndex(p_deb)].contents
           IN  /\ new.fmt = p_deb[PayloadIndex(p_deb)].contents.fmt
               /\ new.raw = <<>>
               /\ Len(new.tar) = Len(InTar) + Len(p_links)
               /\ \A k \in 1..Len(InTar) : new.tar[k].contents = InTar[k].contents

C13_Witness ==
    /\ PatchOk
    /\ Len(p_deb) = 3
    /\ PayloadIndex(p_deb) = 2
    /\ IsPayloadMember(p_deb[3])
    /\ Len(p_links) = 2
    /\ p_res.val[2].size > p_deb[2].size
    /\ p_res.val[2].mode = 420

====
